---- MODULE Spec2Model ----
(***************************************************************************)
(* A model of parse-two-not-touch.py: the connected-component discovery    *)
(* (find_areas), the puzzle pipeline of main, the cell outlier filter of   *)
(* find_cells and the cell-to-region assignment of locate_cells.           *)
(*                                                                         *)
(* Points are <<row, col>> tuples, Rects are records [row, col, height,    *)
(* width].  A pixel array is a record [rows, cols, px] and lives in a      *)
(* buffer of the heap; the program's variables hold references to (windows *)
(* of) buffers, as numpy arrays and their slices do.                       *)
(***************************************************************************)
EXTENDS Integers, Sequences, FiniteSets, TLC

VARIABLES heap, pc, stack, retval, err, fa, areas_img, pos, areas, fc, lc, mn

vars == <<heap, pc, stack, retval, err, fa, areas_img, pos, areas, fc, lc, mn>>

(* ------------------------------ palette -------------------------------- *)
WHITE == 255
ALMOST_WHITE == WHITE - 10
MID_GRAY == WHITE \div 2
DARK_GRAY == WHITE \div 4
BLACK == 0

(* ------------------------------- bounds -------------------------------- *)
Rows == 3
Cols == 3
MaxLight == 2
MaxDim == 2
Lights == {ALMOST_WHITE, WHITE}
MaxCoord == 5
MaxCol == 1
CellSide == 2
MaxCells == 3
MaxHeight == 3
MaxBoxes == 4

(* ---------------------------- Point and Rect --------------------------- *)
Point(row, col) == <<row, col>>

\* Point.to_cv: the (x, y) tuple of a point
to_cv(p) == <<p[2], p[1]>>

Rect(row, col, height, width) ==
    [row |-> row, col |-> col, height |-> height, width |-> width]

\* Rect.from_cv: an OpenCV rect is (x, y, width, height)
from_cv(rect) == Rect(rect[2], rect[1], rect[4], rect[3])

area(s) == s.width * s.height

center(s) == Point(s.row + s.height \div 2, s.col + s.width \div 2)

(* ------------------------- arrays and references ----------------------- *)
Dom(rows, cols) == (0 .. rows - 1) \X (0 .. cols - 1)

NoGrid == [rows |-> 0, cols |-> 0, px |-> <<>>]

NoRef == [buf |-> "none", row |-> 0, col |-> 0, rows |-> 0, cols |-> 0]

WorkRef(rows, cols) ==
    [buf |-> "work", row |-> 0, col |-> 0, rows |-> rows, cols |-> cols]

\* the array a reference denotes
Deref(h, ref) ==
    [rows |-> ref.rows, cols |-> ref.cols,
     px |-> [p \in Dom(ref.rows, ref.cols) |->
                h[ref.buf].px[<<p[1] + ref.row, p[2] + ref.col>>]]]

\* writing array g through a reference: a work reference names a whole
\* (newly allocated) buffer, a reference into img names a window of it
Store(h, ref, g) ==
    IF ref.buf = "work"
    THEN [h EXCEPT !.work = g]
    ELSE [h EXCEPT !.img.px =
            [q \in DOMAIN @ |->
                IF /\ q[1] >= ref.row /\ q[1] < ref.row + ref.rows
                   /\ q[2] >= ref.col /\ q[2] < ref.col + ref.cols
                THEN g.px[<<q[1] - ref.row, q[2] - ref.col>>]
                ELSE @[q]]]

\* Rect.extract: a slice of an array is a view of the same buffer
extract(s, ref) ==
    [buf |-> ref.buf, row |-> ref.row + s.row, col |-> ref.col + s.col,
     rows |-> s.height, cols |-> s.width]

(* ------------------------- OpenCV primitives --------------------------- *)
\* cv.threshold(src, thresh, maxval, THRESH_BINARY):
\* dst = maxval where src > thresh, 0 elsewhere
cvThreshold(src, thresh, maxval) ==
    [src EXCEPT !.px = [p \in DOMAIN @ |->
                           IF @[p] > thresh THEN maxval ELSE 0]]

\* thresholding in place, as cv.threshold(img, ..., dst=img) would
ThresholdDst_InPlace(src) == src

\* where cv.threshold puts its result: no dst is passed, so a new array
ThresholdDst(src) == WorkRef(src.rows, src.cols)

\* a border added below and to the right only: the source keeps its origin
cvCopyMakeBorder_Unshifted(src, top, bottom, left, right, value) ==
    [rows |-> src.rows + top + bottom, cols |-> src.cols + left + right,
     px |-> [p \in Dom(src.rows + top + bottom, src.cols + left + right) |->
                IF p[1] < src.rows /\ p[2] < src.cols
                THEN src.px[p]
                ELSE value]]

\* cv.copyMakeBorder(src, top, bottom, left, right, BORDER_CONSTANT, value)
cvCopyMakeBorder(src, top, bottom, left, right, value) ==
    [rows |-> src.rows + top + bottom, cols |-> src.cols + left + right,
     px |-> [p \in Dom(src.rows + top + bottom, src.cols + left + right) |->
                IF /\ p[1] >= top /\ p[1] < top + src.rows
                   /\ p[2] >= left /\ p[2] < left + src.cols
                THEN src.px[<<p[1] - top, p[2] - left>>]
                ELSE value]]

\* the 4-neighbourhood of a pixel
Nbrs(p) == {<<p[1] - 1, p[2]>>, <<p[1] + 1, p[2]>>,
            <<p[1], p[2] - 1>>, <<p[1], p[2] + 1>>}

\* S: the pixels reached so far, F: those reached in the last round
RECURSIVE Grow(_, _, _, _)
GrowBy(g, v, S, N) == IF N = {} THEN S ELSE Grow(g, v, S \cup N, N)

Grow(g, v, S, F) ==
    GrowBy(g, v, S, {q \in UNION {Nbrs(p) : p \in F} :
                        /\ q \in DOMAIN g.px
                        /\ q \notin S
                        /\ g.px[q] = v})

\* the pixels cv.floodFill repaints from a seed (default flags:
\* 4-connectivity, zero lower and upper difference)
Component(g, seed) == Grow(g, g.px[seed], {seed}, {seed})

Min(S) == CHOOSE x \in S : \A y \in S : x <= y
Max(S) == CHOOSE x \in S : \A y \in S : x >= y

\* bounding rect of a set of pixels as OpenCV reports it: (x, y, w, h)
Extent(lo, hi) == <<lo, hi - lo + 1>>

Span(ns) == Extent(Min(ns), Max(ns))

cvBoundingRect(S) ==
    <<Span({p[2] : p \in S})[1], Span({p[1] : p \in S})[1],
      Span({p[2] : p \in S})[2], Span({p[1] : p \in S})[2]>>

\* the pixels of comp repainted
Repaint(g, comp, newVal) ==
    [img |-> [g EXCEPT !.px = [p \in DOMAIN @ |->
                                    IF p \in comp THEN newVal ELSE @[p]]],
     rect |-> cvBoundingRect(comp)]

\* cv.floodFill(image, None, seedPoint, newVal): seedPoint is (x, y)
cvFloodFill(g, seedPoint, newVal) ==
    Repaint(g, Component(g, <<seedPoint[2], seedPoint[1]>>), newVal)

(* ------------------------------ find_areas ----------------------------- *)
Frame(img, threshold, fill_border, find_black, all_points) ==
    [img |-> img, threshold |-> threshold, fill_border |-> fill_border,
     find_black |-> find_black, all_points |-> all_points]

NoFrame == Frame(NoRef, 0, FALSE, FALSE, FALSE)

Target(f) == IF f.find_black THEN BLACK ELSE WHITE

\* a second flood that leaves the area dark gray
Resentinel_Dark == DARK_GRAY

\* a second flood that paints the area white again
Resentinel_White == WHITE

\* the second sentinel, which takes a recorded area out of the scan
Resentinel == MID_GRAY

\* the scan order of the two nested loops: position k is (row, col)
Coord(g, k) == Point(k \div g.cols, k % g.cols)

\* scan positions from k on whose pixel has the target colour
Hits(g, target, k) ==
    {j \in k .. (g.rows * g.cols - 1) : g.px[Coord(g, j)] = target}

\* line 163
FA_Threshold ==
    /\ pc = "fa_threshold"
    /\ LET dst == ThresholdDst(fa.img)
       IN /\ heap' = Store(heap, dst,
                           cvThreshold(Deref(heap, fa.img), fa.threshold, WHITE))
          /\ areas_img' = dst
    /\ pc' = "fa_border"
    /\ UNCHANGED <<stack, retval, err, fa, pos, areas, fc, lc, mn>>

\* lines 165-173
FA_Border ==
    /\ pc = "fa_border"
    /\ IF fa.fill_border
       THEN /\ areas_img' = WorkRef(areas_img.rows + 2, areas_img.cols + 2)
            /\ heap' = Store(heap, areas_img',
                             cvFloodFill(cvCopyMakeBorder(
                                             Deref(heap, areas_img),
                                             1, 1, 1, 1, WHITE),
                                         <<0, 0>>, BLACK).img)
       ELSE UNCHANGED <<heap, areas_img>>
    /\ pos' = 0
    /\ areas' = <<>>
    /\ pc' = "fa_scan"
    /\ UNCHANGED <<stack, retval, err, fa, fc, lc, mn>>

\* lines 183-190: the area recorded once it is flooded dark gray
Found(f, dark) ==
    IF f.all_points
    THEN {p \in DOMAIN dark.img.px : dark.img.px[p] = DARK_GRAY}
    ELSE from_cv(dark.rect)

\* lines 180-194 at scan position coord
Record(coord, dark) ==
    /\ areas' = Append(areas, Found(fa, dark))
    /\ heap' = Store(heap, areas_img,
                     cvFloodFill(dark.img, to_cv(coord), Resentinel).img)

\* lines 175-194: the scan runs on to the next pixel of the target colour,
\* floods its area dark gray, records it and floods it mid gray
Discover(g, hits) ==
    /\ hits # {}
    /\ Record(Coord(g, Min(hits)),
              cvFloodFill(g, to_cv(Coord(g, Min(hits))), DARK_GRAY))
    /\ pos' = Min(hits) + 1

FA_Discover ==
    /\ pc = "fa_scan"
    /\ Discover(Deref(heap, areas_img),
                Hits(Deref(heap, areas_img), Target(fa), pos))
    /\ UNCHANGED <<pc, stack, retval, err, fa, areas_img, fc, lc, mn>>

\* line 196: the scan is over, the working array is released
FA_Return ==
    /\ pc = "fa_scan"
    /\ Hits(Deref(heap, areas_img), Target(fa), pos) = {}
    /\ retval' = areas
    /\ pc' = Head(stack)
    /\ stack' = Tail(stack)
    /\ heap' = [heap EXCEPT !.work = NoGrid]
    /\ areas_img' = NoRef
    /\ pos' = 0
    /\ areas' = <<>>
    /\ UNCHANGED <<err, fa, fc, lc, mn>>

(* ------------------------------ find_cells ----------------------------- *)
RECURSIVE SumAreas(_)
SumAreas(cells) ==
    IF cells = <<>> THEN 0 ELSE area(Head(cells)) + SumAreas(Tail(cells))

\* the quotients of lines 136-137 are kept exact, as numerator and denominator
Quot(num, den) == [num |-> num, den |-> den]

\* s.area() >= min_area
KeepCell(s, min_area) == area(s) * min_area.den >= min_area.num

\* [s for s in cells if s.area() >= min_area]
RECURSIVE FilterCells(_, _)
FilterCells(cells, min_area) ==
    IF cells = <<>> THEN <<>>
    ELSE (IF KeepCell(Head(cells), min_area) THEN <<Head(cells)>> ELSE <<>>)
         \o FilterCells(Tail(cells), min_area)

\* lines 132-137: the boxes find_areas returned, their mean area and the
\* minimum area; the mean of no boxes is a division by zero
FC_Avg ==
    /\ pc = "fc_avg"
    /\ IF Len(retval) = 0
       THEN /\ err' = [kind |-> "ZeroDivisionError", at |-> "find_cells"]
            /\ pc' = "aborted"
            /\ fc' = [fc EXCEPT !.cells = retval]
       ELSE /\ fc' = [cells |-> retval,
                      avg_area |-> Quot(SumAreas(retval), Len(retval)),
                      min_area |-> Quot(SumAreas(retval), 4 * Len(retval))]
            /\ pc' = "fc_filter"
            /\ err' = err
    /\ UNCHANGED <<heap, stack, retval, fa, areas_img, pos, areas, lc, mn>>

\* lines 138-140
FC_Filter ==
    /\ pc = "fc_filter"
    /\ retval' = FilterCells(fc.cells, fc.min_area)
    /\ pc' = Head(stack)
    /\ stack' = Tail(stack)
    /\ UNCHANGED <<heap, err, fa, areas_img, pos, areas, fc, lc, mn>>

(* ----------------------------- locate_cells ---------------------------- *)
SeqRange(s) == {s[i] : i \in 1 .. Len(s)}

\* the sort key of lines 207-209
RowBucket(s, min_row, row_separation) ==
    (s.row - min_row + row_separation \div 2) \div row_separation

KeyLess(a, b, min_row, row_separation) ==
    LET ka == RowBucket(a, min_row, row_separation)
        kb == RowBucket(b, min_row, row_separation)
    IN ka < kb \/ (ka = kb /\ a.col < b.col)

\* insertion of s after every element whose key is not greater: sorted() is
\* stable
RECURSIVE Insert(_, _, _, _)
Insert(s, sorted, min_row, row_separation) ==
    IF sorted = <<>> THEN <<s>>
    ELSE IF KeyLess(s, Head(sorted), min_row, row_separation)
         THEN <<s>> \o sorted
         ELSE <<Head(sorted)>>
              \o Insert(s, Tail(sorted), min_row, row_separation)

RECURSIVE SortCells(_, _, _, _)
SortCells(cells, n, min_row, row_separation) ==
    IF n = 0 THEN <<>>
    ELSE Insert(cells[n], SortCells(cells, n - 1, min_row, row_separation),
                min_row, row_separation)

\* row_separation of line 206
RowSeparation(cells, height) ==
    LET rows == {s.row : s \in SeqRange(cells)}
    IN (Max(rows) - Min(rows)) \div (height - 1)

\* lines 201-209
LC_Sort ==
    /\ pc = "lc_sort"
    /\ IF lc.height > 1
       THEN IF lc.cells = <<>>
            THEN /\ err' = [kind |-> "ValueError", at |-> "locate_cells"]
                 /\ pc' = "aborted"
                 /\ lc' = lc
            ELSE LET min_row == Min({s.row : s \in SeqRange(lc.cells)})
                     row_separation == RowSeparation(lc.cells, lc.height)
                 IN IF row_separation = 0
                    THEN /\ err' = [kind |-> "ZeroDivisionError",
                                    at |-> "locate_cells"]
                         /\ pc' = "aborted"
                         /\ lc' = lc
                    ELSE /\ lc' = [lc EXCEPT !.cells =
                                     SortCells(lc.cells, Len(lc.cells),
                                               min_row, row_separation)]
                         /\ pc' = "lc_assign"
                         /\ err' = err
       ELSE /\ pc' = "lc_assign"
            /\ UNCHANGED <<lc, err>>
    /\ UNCHANGED <<heap, stack, retval, fa, areas_img, pos, areas, fc, mn>>

\* the inner loop of lines 214-217: 0-based index of the first region that
\* holds the point, -1 when the loop ends without a break
FirstRegion(regions, point) ==
    LET I == {i \in 1 .. Len(regions) : point \in regions[i]}
    IN IF I = {} THEN -1 ELSE Min(I) - 1

\* lines 211-219
LC_Assign ==
    /\ pc = "lc_assign"
    /\ LET loc == [k \in 1 .. Len(lc.cells) |->
                      FirstRegion(lc.regions, center(lc.cells[k]))]
           bad == {k \in 1 .. Len(lc.cells) : loc[k] = -1}
       IN IF bad # {}
          THEN /\ err' = [kind |-> "UnassignedCell",
                          cell |-> lc.cells[Min(bad)]]
               /\ pc' = "aborted"
               /\ lc' = [lc EXCEPT !.locations = SubSeq(loc, 1, Min(bad) - 1)]
          ELSE /\ lc' = [lc EXCEPT !.locations = loc]
               /\ pc' = "lc_partition"
               /\ err' = err
    /\ UNCHANGED <<heap, stack, retval, fa, areas_img, pos, areas, fc, mn>>

\* for i in range(0, len(l), n): yield l[i : i+n]
RECURSIVE partition_list(_, _)
partition_list(l, n) ==
    IF l = <<>> THEN <<>>
    ELSE IF Len(l) <= n THEN <<l>>
    ELSE <<SubSeq(l, 1, n)>> \o partition_list(SubSeq(l, n + 1, Len(l)), n)

\* line 221
LC_Partition ==
    /\ pc = "lc_partition"
    /\ retval' = partition_list(lc.locations, lc.height)
    /\ pc' = Head(stack)
    /\ stack' = Tail(stack)
    /\ UNCHANGED <<heap, err, fa, areas_img, pos, areas, fc, lc, mn>>

(* --------------------------------- main -------------------------------- *)
\* the whole source image
ImgRef(h) == [buf |-> "img", row |-> 0, col |-> 0,
              rows |-> h.img.rows, cols |-> h.img.cols]

\* line 55, find_puzzles
Main_FindPuzzles ==
    /\ pc = "main"
    /\ fa' = Frame(ImgRef(heap), MID_GRAY, FALSE, TRUE, FALSE)
    /\ pc' = "fa_threshold"
    /\ stack' = <<"main_puzzles">>
    /\ UNCHANGED <<heap, retval, err, areas_img, pos, areas, fc, lc, mn>>

\* lines 55-60
Main_Puzzles ==
    /\ pc = "main_puzzles"
    /\ IF retval = <<>>
       THEN /\ err' = [kind |-> "NoPuzzlesFound"]
            /\ pc' = "aborted"
            /\ mn' = mn
       ELSE /\ mn' = [mn EXCEPT !.puzzles = retval, !.i = 1]
            /\ pc' = "main_loop"
            /\ err' = err
    /\ UNCHANGED <<heap, stack, retval, fa, areas_img, pos, areas, fc, lc>>

\* lines 62-66, parse_puzzle up to the call of find_regions
Main_Loop ==
    /\ pc = "main_loop"
    /\ IF mn.i > Len(mn.puzzles)
       THEN /\ pc' = "done"
            /\ UNCHANGED <<mn, fa, stack>>
       ELSE LET puzzle_img == extract(mn.puzzles[mn.i], ImgRef(heap))
            IN /\ mn' = [mn EXCEPT !.puzzle_img = puzzle_img,
                                   !.regions = <<>>, !.cells = <<>>]
               /\ fa' = Frame(puzzle_img, MID_GRAY, TRUE, FALSE, TRUE)
               /\ pc' = "fa_threshold"
               /\ stack' = <<"parse_cells">>
    /\ UNCHANGED <<heap, retval, err, areas_img, pos, areas, fc, lc>>

\* lines 116-119, find_cells up to the call of find_areas
Parse_Cells ==
    /\ pc = "parse_cells"
    /\ mn' = [mn EXCEPT !.regions = retval]
    /\ fa' = Frame(mn.puzzle_img, ALMOST_WHITE, TRUE, FALSE, FALSE)
    /\ pc' = "fa_threshold"
    /\ stack' = <<"fc_avg", "main_check">>
    /\ UNCHANGED <<heap, retval, err, areas_img, pos, areas, fc, lc>>

\* lines 66-71; args.width and args.height, command-line inputs that are the
\* same for the whole run, are read here for the first time
Main_Check ==
    /\ pc = "main_check"
    /\ \E width, height \in 1 .. MaxDim :
          /\ mn.width = 0 \/ (width = mn.width /\ height = mn.height)
          /\ LET expected_cells == width * height
             IN IF Len(retval) # expected_cells
                THEN /\ err' = [kind |-> "CellCountMismatch",
                                found |-> Len(retval),
                                expected |-> expected_cells]
                     /\ pc' = "aborted"
                     /\ UNCHANGED <<lc, stack>>
                ELSE /\ lc' = [regions |-> mn.regions, cells |-> retval,
                               height |-> height, locations |-> <<>>]
                     /\ pc' = "lc_sort"
                     /\ stack' = <<"main_emit">>
                     /\ err' = err
          /\ mn' = [mn EXCEPT !.cells = retval, !.width = width,
                              !.height = height]
    /\ UNCHANGED <<heap, retval, fa, areas_img, pos, areas, fc>>

\* lines 71-75: the rows of the matrix are printed
Main_Emit ==
    /\ pc = "main_emit"
    /\ mn' = [mn EXCEPT !.out = @ \o retval, !.i = @ + 1]
    /\ pc' = "main_loop"
    /\ UNCHANGED <<heap, stack, retval, err, fa, areas_img, pos, areas, fc, lc>>

(* ------------------------------- inputs -------------------------------- *)
Pixels == Dom(Rows, Cols)

\* images: black with at most MaxLight lighter pixels, and the blank page
Images ==
    UNION {{[rows |-> Rows, cols |-> Cols,
             px |-> [p \in Pixels |-> IF p \in S THEN f[p] ELSE BLACK]] :
                f \in [S -> Lights]} :
           S \in {T \in SUBSET Pixels : Cardinality(T) <= MaxLight}}
    \cup {[rows |-> Rows, cols |-> Cols, px |-> [p \in Pixels |-> WHITE]]}

NoMain == [width |-> 0, height |-> 0, puzzles |-> <<>>, i |-> 0,
           puzzle_img |-> NoRef, regions |-> <<>>, cells |-> <<>>,
           out |-> <<>>]
NoLocate == [regions |-> <<>>, cells |-> <<>>, height |-> 0, locations |-> <<>>]
NoCells == [cells |-> <<>>, avg_area |-> Quot(0, 1), min_area |-> Quot(0, 1)]
NoError == [kind |-> "none"]

Idle ==
    /\ retval = <<>>
    /\ err = NoError
    /\ areas_img = NoRef
    /\ pos = 0
    /\ areas = <<>>
    /\ fc = NoCells
    /\ lc = NoLocate

\* a direct call of find_areas on an image, with any options
InitAreas ==
    /\ \E im \in Images : heap = [img |-> im, work |-> NoGrid]
    /\ \E t \in {MID_GRAY, ALMOST_WHITE}, b1, b2, b3 \in BOOLEAN :
          fa = Frame(ImgRef(heap), t, b1, b2, b3)
    /\ pc = "fa_threshold"
    /\ stack = <<"done">>
    /\ mn = NoMain
    /\ Idle

\* a run of main on an image
InitMain ==
    /\ \E im \in Images : heap = [img |-> im, work |-> NoGrid]
    /\ mn = NoMain
    /\ fa = NoFrame
    /\ pc = "main"
    /\ stack = <<>>
    /\ Idle

Init == InitMain \/ InitAreas

Next ==
    \/ Main_FindPuzzles \/ Main_Puzzles \/ Main_Loop \/ Parse_Cells
    \/ Main_Check \/ Main_Emit
    \/ FA_Threshold \/ FA_Border \/ FA_Discover \/ FA_Return
    \/ FC_Avg \/ FC_Filter
    \/ LC_Sort \/ LC_Assign \/ LC_Partition

Spec == Init /\ [][Next]_vars

\* a direct call of locate_cells on lists of regions and cells
CellPool ==
    {Rect(r, c, CellSide, CellSide) : r \in 0 .. MaxCoord, c \in 0 .. MaxCol}

CellLists == UNION {[1 .. n -> CellPool] : n \in 0 .. MaxCells}

Band(lo, hi) == (lo .. hi) \X (0 .. MaxCol + CellSide)

RegionLists ==
    {<<>>,
     <<Band(0, MaxCoord + CellSide)>>,
     <<Band(0, 3)>>,
     <<Band(0, 3), Band(4, MaxCoord + CellSide)>>,
     <<Band(0, 3), Band(0, MaxCoord + CellSide)>>}

InitLocate ==
    /\ \E regions \in RegionLists, cells \in CellLists, height \in 1 .. MaxHeight :
          lc = [regions |-> regions, cells |-> cells, height |-> height,
                locations |-> <<>>]
    /\ heap = [img |-> NoGrid, work |-> NoGrid]
    /\ fa = NoFrame
    /\ mn = NoMain
    /\ pc = "lc_sort"
    /\ stack = <<"done">>
    /\ retval = <<>>
    /\ err = NoError
    /\ areas_img = NoRef
    /\ pos = 0
    /\ areas = <<>>
    /\ fc = NoCells

NextLocate == LC_Sort \/ LC_Assign \/ LC_Partition

SpecLocate == InitLocate /\ [][NextLocate]_vars

\* find_cells from the point where find_areas has returned its boxes
BoxPool == {Rect(0, 0, h, w) : h \in {1, 2}, w \in {1, 10, 49, 50, 51}}

BoxLists == UNION {[1 .. n -> BoxPool] : n \in 0 .. MaxBoxes}

InitCells ==
    /\ retval \in BoxLists
    /\ heap = [img |-> NoGrid, work |-> NoGrid]
    /\ fa = NoFrame
    /\ mn = NoMain
    /\ pc = "fc_avg"
    /\ stack = <<"done">>
    /\ err = NoError
    /\ areas_img = NoRef
    /\ pos = 0
    /\ areas = <<>>
    /\ fc = NoCells
    /\ lc = NoLocate

NextCells == FC_Avg \/ FC_Filter

SpecCells == InitCells /\ [][NextCells]_vars

(* ============================== properties ============================= *)
\* the working array as the scan finds it: thresholded, then padded and
\* cleared from the corner when fill_border is set (lines 163-170)
Prepared(h, f) ==
    LET bin == cvThreshold(Deref(h, f.img), f.threshold, WHITE)
    IN IF f.fill_border
       THEN cvFloodFill(cvCopyMakeBorder(bin, 1, 1, 1, 1, WHITE),
                        <<0, 0>>, BLACK).img
       ELSE bin

\* the scan of find_areas has passed the last pixel: areas is what it returns
ScanDone ==
    /\ pc = "fa_scan"
    /\ Hits(Deref(heap, areas_img), Target(fa), pos) = {}

TargetPixels(g, target) == {p \in DOMAIN g.px : g.px[p] = target}

\* maximal 4-connected sets among the pixels P of one colour
RECURSIVE ComponentsOf(_, _)
WithComponent(g, P, K) == {K} \cup ComponentsOf(g, P \ K)

ComponentsOf(g, P) ==
    IF P = {} THEN {}
    ELSE WithComponent(g, P, Component(g, CHOOSE p \in P : TRUE))

\* maximal 4-connected sets of pixels of the target colour
Components(g, target) == ComponentsOf(g, TargetPixels(g, target))

\* row-major rank of the first pixel of a set
Lead(g, K) == Min({p[1] * g.cols + p[2] : p \in K})

Shift(K, d) == {<<p[1] + d, p[2] + d>> : p \in K}

Perimeter(g) ==
    {p \in DOMAIN g.px :
        p[1] = 0 \/ p[2] = 0 \/ p[1] = g.rows - 1 \/ p[2] = g.cols - 1}

\* white areas of an array that do not reach its perimeter
EnclosedWhite(g) == {K \in Components(g, WHITE) : K \cap Perimeter(g) = {}}

\* C1: for a non-empty cell list whose length is a multiple of gridHeight,
\* the matrix locate_cells returns has gridHeight rows, each of length
\* totalCells / gridHeight, the consecutive chunks of the region-index list
C1_MatrixShape ==
    (pc = "done" /\ lc.cells # <<>> /\ Len(lc.cells) % lc.height = 0) =>
        LET w == Len(lc.cells) \div lc.height
        IN /\ Len(retval) = lc.height
           /\ \A i \in 1 .. Len(retval) :
                 retval[i] = SubSeq(lc.locations, (i - 1) * w + 1, i * w)

\* C2: when some cell's center is in no region, locate_cells ends with the
\* unassigned-cell error and returns no matrix; a returned matrix never has
\* fewer entries than there are cells
HasUnassigned ==
    \E k \in 1 .. Len(lc.cells) :
        FirstRegion(lc.regions, center(lc.cells[k])) = -1

RECURSIVE Entries(_)
Entries(m) == IF m = <<>> THEN 0 ELSE Len(Head(m)) + Entries(Tail(m))

C2_UnassignedRaises ==
    /\ (pc \in {"done", "aborted"} /\ HasUnassigned) =>
           (pc = "aborted" /\ err.kind = "UnassignedCell")
    /\ pc = "done" => Entries(retval) = Len(lc.cells)

\* C3: in a run of main, whenever the cell pass yields a number of cells other
\* than width*height (no boxes at all included, which matches no width and
\* height), the run aborts with the count-mismatch error carrying both
\* counts, and locate_cells never starts
CellsYielded ==
    IF fc.cells = <<>> THEN 0
    ELSE Len(FilterCells(fc.cells,
                         Quot(SumAreas(fc.cells), 4 * Len(fc.cells))))

InCellPassOrLater ==
    /\ mn.puzzles # <<>>
    /\ pc \in {"aborted", "lc_sort", "lc_assign", "lc_partition", "main_emit"}

C3_CountMismatch ==
    \A width, height \in 1 .. MaxDim :
        (/\ InCellPassOrLater
         /\ mn.width = 0 \/ (width = mn.width /\ height = mn.height)
         /\ CellsYielded # width * height) =>
            /\ pc = "aborted"
            /\ err.kind = "CellCountMismatch"
            /\ err.found = CellsYielded
            /\ err.expected = width * height

\* C4: in all_points mode the point-sets find_areas returns are pairwise
\* disjoint and their union is the set of target-colour pixels of the
\* working array as it stands after thresholding and border clearing
C4_Partition ==
    (ScanDone /\ fa.all_points) =>
        /\ \A i, j \in 1 .. Len(areas) : i # j => areas[i] \cap areas[j] = {}
        /\ UNION {areas[i] : i \in 1 .. Len(areas)}
              = TargetPixels(Prepared(heap, fa), Target(fa))

C4_Witness ==
    /\ ScanDone
    /\ fa.all_points
    /\ Len(areas) >= 2

\* C5: binarization maps an intensity v to white exactly when v >= threshold
\* and to black otherwise
C5_ThresholdInclusive ==
    pc = "fa_border" =>
        LET src == Deref(heap, fa.img)
            dst == Deref(heap, areas_img)
        IN \A p \in DOMAIN src.px :
              dst.px[p] = IF src.px[p] >= fa.threshold THEN WHITE ELSE BLACK

\* C6: find_cells keeps, in order, exactly the boxes whose area is more than
\* a quarter of the mean area; a box at exactly a quarter is discarded
RECURSIVE AboveQuarterMean(_, _, _)
AboveQuarterMean(cells, sum, len) ==
    IF cells = <<>> THEN <<>>
    ELSE (IF 4 * len * area(Head(cells)) > sum
          THEN <<Head(cells)>> ELSE <<>>)
         \o AboveQuarterMean(Tail(cells), sum, len)

C6_QuarterDiscarded ==
    [][pc = "fc_filter" =>
          retval' = AboveQuarterMean(fc.cells, SumAreas(fc.cells),
                                     Len(fc.cells))]_vars

\* C7: for gridHeight > 1 the sort gives every cell a row bucket in
\* 0..gridHeight-1, and within a bucket cells come by increasing col
C7_BucketRange ==
    (pc = "lc_assign" /\ lc.height > 1 /\ lc.cells # <<>>) =>
        LET min_row == Min({s.row : s \in SeqRange(lc.cells)})
            sep == RowSeparation(lc.cells, lc.height)
        IN /\ \A k \in 1 .. Len(lc.cells) :
                 RowBucket(lc.cells[k], min_row, sep) \in 0 .. lc.height - 1
           /\ \A k \in 1 .. Len(lc.cells) - 1 :
                 RowBucket(lc.cells[k], min_row, sep)
                     = RowBucket(lc.cells[k + 1], min_row, sep)
                 => lc.cells[k].col <= lc.cells[k + 1].col

\* C8: no step of any find_areas invocation, in a run of main or in a direct
\* call, changes a pixel of the source image
C8_SourceUnchanged == [][heap'.img = heap.img]_vars

\* the cell pass of a puzzle has written sentinels into its working array
C8_Witness ==
    /\ mn.puzzles # <<>>
    /\ stack = <<"fc_avg", "main_check">>
    /\ pc = "fa_scan"
    /\ Len(areas) >= 1
    /\ \E p \in DOMAIN heap.work.px : heap.work.px[p] = MID_GRAY

\* the list as holds exactly the components comps of array g, each as a
\* point-set or as its bounding Rect, by the rank of their first pixels
InLeadOrder(g, comps, as, all_points) ==
    /\ Len(as) = Cardinality(comps)
    /\ \A K \in comps :
          as[Cardinality({J \in comps : Lead(g, J) < Lead(g, K)}) + 1]
              = IF all_points THEN K ELSE from_cv(cvBoundingRect(K))

ComponentsInOrder(g) ==
    InLeadOrder(g, Components(g, Target(fa)), areas, fa.all_points)

\* C9: find_areas returns each connected component of the target colour
\* exactly once, in the row-major order of the components' first pixels
C9_DiscoveryOrder == ScanDone => ComponentsInOrder(Prepared(heap, fa))

C9_Witness ==
    /\ ScanDone
    /\ Len(areas) >= 2
    /\ ~fa.find_black

\* areas found with fill_border against the enclosed white components of
\* the binarized input bin
ShiftedByOne(bin, enclosed) ==
    /\ ~fa.find_black =>
          {areas[i] : i \in 1 .. Len(areas)}
              = {IF fa.all_points THEN Shift(K, 1)
                 ELSE from_cv(cvBoundingRect(Shift(K, 1))) : K \in enclosed}
    /\ (fa.find_black /\ fa.all_points) =>
          \A i \in 1 .. Len(areas) : \A p \in areas[i] :
              <<p[1] - 1, p[2] - 1>> \in DOMAIN bin.px
                  => <<p[1] - 1, p[2] - 1>> \notin UNION enclosed

\* a cell center is in a region set exactly when the pixel under it is in
\* that region of the puzzle image
CentersAgree(enclosed) ==
    \A k \in 1 .. Len(lc.cells) : \A i \in 1 .. Len(lc.regions) :
        center(lc.cells[k]) \in lc.regions[i] <=>
            \E K \in enclosed :
                /\ <<center(lc.cells[k])[1] - 1,
                      center(lc.cells[k])[2] - 1>> \in K
                /\ lc.regions[i] = Shift(K, 1)

EnclosedIn(bin) == ShiftedByOne(bin, EnclosedWhite(bin))

====
